---------------------------- MODULE Spec2Model ----------------------------
(***************************************************************************)
(* Model of src/src/components/RocketVisualization.tsx: the CSV parser,    *)
(* the viewport fit, the grid builder, the load flow and the selection     *)
(* state of the RocketVisualization component.                             *)
(*                                                                         *)
(* Strings are sequences of one-character strings, so that split, trim,    *)
(* toLowerCase, parseFloat and the feasible regex work on characters as    *)
(* the JavaScript does.  Numbers read from a file are integers: the cells  *)
(* of the modelled files hold an optional sign and decimal digits (no      *)
(* fraction, no exponent, no "Infinity"), and NaN is kept apart.           *)
(***************************************************************************)
EXTENDS Integers, Sequences, FiniteSets, TLC

VARIABLES
    data,            \* useState<RocketData[]>            (line 31)
    loading,         \* useState(false)                   (line 32)
    viewState,       \* useState<ViewState>               (lines 33-36)
    gridStep,        \* useState<number | null>(null)     (line 42)
    showGrid,        \* useState(true)                    (line 41)
    selected,        \* useState<Map<string, RocketData>> (line 45)
    isSelecting,     \* useState(false)                   (line 46)
    selectionBounds, \* useState<{...} | null>(null)      (lines 47-52)
    loads,           \* the loadCSV calls suspended at an await
    toast,           \* title of the last toast shown, "" before the first
    window,          \* window.innerWidth / innerHeight
    drag,            \* the pointer: the shift-drag rectangle in progress
    parse,           \* the locals of one run of parseCSV
    csv,             \* the text handleSelectionExport put in the Blob
    grid             \* the locals of one run of buildGridPaths

vars == <<data, loading, viewState, gridStep, showGrid, selected, isSelecting,
          selectionBounds, loads, toast, window, drag, parse, csv, grid>>

-----------------------------------------------------------------------------
(* Characters and strings                                                  *)

TAB == "\t"
CR == "\r"
LF == "\n"

\* The string a JavaScript string literal denotes, one character per element.
S_id == <<"i", "d">>
S_latentx1 == <<"l", "a", "t", "e", "n", "t", "x", "1">>
S_latentx2 == <<"l", "a", "t", "e", "n", "t", "x", "2">>
S_design_var_1 == <<"d", "e", "s", "i", "g", "n", "_", "v", "a", "r", "_", "1">>
S_design_var_2 == <<"d", "e", "s", "i", "g", "n", "_", "v", "a", "r", "_", "2">>
S_feasible == <<"f", "e", "a", "s", "i", "b", "l", "e">>
S_true == <<"t", "r", "u", "e">>
S_false == <<"f", "a", "l", "s", "e">>

\* The value of an array element past the end of the array.
Undefined == <<"undefined">>

\* NaN, and a finite number: what parseFloat returns.
NaN == [nan |-> TRUE, v |-> 0]
Num(n) == [nan |-> FALSE, v |-> n]

Upper == <<"A", "B", "C", "D", "E", "F", "G", "H", "I", "J", "K", "L", "M",
           "N", "O", "P", "Q", "R", "S", "T", "U", "V", "W", "X", "Y", "Z">>
Lower == <<"a", "b", "c", "d", "e", "f", "g", "h", "i", "j", "k", "l", "m",
           "n", "o", "p", "q", "r", "s", "t", "u", "v", "w", "x", "y", "z">>
Digits == <<"0", "1", "2", "3", "4", "5", "6", "7", "8", "9">>

\* String.prototype.toLowerCase on one character, and on a string.
ToLowerChar(c) ==
    IF \E k \in 1..26 : Upper[k] = c
    THEN Lower[CHOOSE k \in 1..26 : Upper[k] = c]
    ELSE c

ToLower(s) == [k \in 1..Len(s) |-> ToLowerChar(s[k])]

\* The white space String.prototype.trim removes, among the characters used.
IsSpace(c) == c \in {" ", TAB, CR, LF}

\* String.prototype.trim.
Trim(s) ==
    LET keep == {k \in 1..Len(s) : ~IsSpace(s[k])}
    IN  IF keep = {} THEN <<>>
        ELSE LET lo == CHOOSE k \in keep : \A j \in keep : k <= j
                 hi == CHOOSE k \in keep : \A j \in keep : k >= j
             IN  SubSeq(s, lo, hi)

\* String.prototype.includes for a one-character needle.
Includes(s, c) == \E k \in 1..Len(s) : s[k] = c

\* String.prototype.split on the one-character separator d: the pieces
\* between consecutive separators, n separators giving n + 1 pieces.
SplitOn(s, d) ==
    LET cuts == {k \in 1..Len(s) : s[k] = d}
        edge == {0} \cup cuts \cup {Len(s) + 1}
        Nxt(k) == CHOOSE j \in edge : j > k /\ \A m \in edge : m > k => j <= m
        RECURSIVE From(_)
        From(k) == IF k = Len(s) + 1 THEN <<>>
                   ELSE <<SubSeq(s, k + 1, Nxt(k) - 1)>> \o From(Nxt(k))
    IN  From(0)

\* text.split(/\r?\n/): split at every LF, a CR right before it being part
\* of the separator.
SplitLines(s) ==
    LET raw == SplitOn(s, LF)
        Chop(l, last) == IF ~last /\ Len(l) > 0 /\ l[Len(l)] = CR
                         THEN SubSeq(l, 1, Len(l) - 1) ELSE l
    IN  [k \in 1..Len(raw) |-> Chop(raw[k], k = Len(raw))]

\* Array.prototype.join with a one-character separator; undefined joins as "".
RECURSIVE Join(_, _)
Join(parts, d) ==
    IF parts = <<>> THEN <<>>
    ELSE LET h == IF Head(parts) = Undefined THEN <<>> ELSE Head(parts)
         IN  IF Len(parts) = 1 THEN h
             ELSE h \o <<d>> \o Join(Tail(parts), d)

\* Array.prototype.indexOf: the 0-based index of the first match, or -1.
IndexOf(arr, s) ==
    IF \E k \in 1..Len(arr) : arr[k] = s
    THEN (CHOOSE k \in 1..Len(arr) : arr[k] = s /\ \A j \in 1..(k - 1) : arr[j] # s) - 1
    ELSE -1

\* arr[i] for a 0-based index i >= 0: undefined past the end.
At(arr, i) == IF i + 1 <= Len(arr) THEN arr[i + 1] ELSE Undefined

IsDigit(c) == \E k \in 1..10 : Digits[k] = c
DigitVal(c) == (CHOOSE k \in 1..10 : Digits[k] = c) - 1

\* parseFloat on a trimmed cell: an optional sign and the longest run of
\* digits that follows; NaN when there is no digit there (or the cell is
\* undefined).  What follows the digits is ignored, as parseFloat does.
ParseFloat(s) ==
    IF s = Undefined \/ s = <<>> THEN NaN
    ELSE LET signed == s[1] \in {"-", "+"}
             from == IF signed THEN 2 ELSE 1
             stop == {k \in from..(Len(s) + 1) : k = Len(s) + 1 \/ ~IsDigit(s[k])}
             end == CHOOSE k \in stop : \A j \in stop : k <= j
             RECURSIVE Val(_)
             Val(k) == IF k < from THEN 0 ELSE 10 * Val(k - 1) + DigitVal(s[k])
         IN  IF end = from THEN NaN
             ELSE Num(IF s[1] = "-" THEN 0 - Val(end - 1) ELSE Val(end - 1))

\* Number.prototype.toString for an integer.
RECURSIVE NatToString(_)
NatToString(n) ==
    IF n < 10 THEN <<Digits[n + 1]>>
    ELSE NatToString(n \div 10) \o <<Digits[(n % 10) + 1]>>

NumToString(n) == IF n < 0 THEN <<"-">> \o NatToString(0 - n) ELSE NatToString(n)

\* The literal `lit` matches s at 0-based offset p, letters compared without
\* case (the regex flag i).
MatchesAt(s, p, lit) ==
    /\ p + Len(lit) <= Len(s)
    /\ \A k \in 1..Len(lit) : ToLowerChar(s[p + k]) = ToLowerChar(lit[k])

\* /^(true|1)$/i.test(s): both alternatives anchored at both ends.
FeasibleRegexTestAnchored(s) ==
    \/ (MatchesAt(s, 0, S_true) /\ Len(s) = Len(S_true))
    \/ (MatchesAt(s, 0, <<"1">>) /\ Len(s) = 1)

\* /^true|1$/i.test(s): the alternation binds weaker than the anchors, so
\* the alternatives are "^true" and "1$".
FeasibleRegexTest(s) ==
    \E p \in 0..Len(s) :
        \/ (p = 0 /\ MatchesAt(s, p, S_true))
        \/ (MatchesAt(s, p, <<"1">>) /\ p + 1 = Len(s))

-----------------------------------------------------------------------------
(* parseCSV (lines 67-108)                                                 *)

\* const delim = text.includes('\t') ? '\t' : (text.includes(';') ? ';' : ',')
Delim(text) ==
    IF Includes(text, TAB) THEN TAB
    ELSE IF Includes(text, ";") THEN ";" ELSE ","

\* const lines = text.split(/\r?\n/).filter(Boolean)
Lines(text) == SelectSeq(SplitLines(text), LAMBDA l : l # <<>>)

\* lines[k].split(delim).map(s => s.trim())
Cells(line, delim) ==
    LET raw == SplitOn(line, delim)
    IN  [k \in 1..Len(raw) |-> Trim(raw[k])]

\* lower = headers.map(h => h.toLowerCase()) and the six lower.indexOf calls.
HeaderIndexes(line, delim) ==
    LET headers == Cells(line, delim)
        lower == [k \in 1..Len(headers) |-> ToLower(headers[k])]
    IN  [ix |-> IndexOf(lower, S_latentx1),
         iy |-> IndexOf(lower, S_latentx2),
         iid |-> IndexOf(lower, S_id),
         idv1 |-> IndexOf(lower, S_design_var_1),
         idv2 |-> IndexOf(lower, S_design_var_2),
         ifeas |-> IndexOf(lower, S_feasible)]

\* rawFeas and feasible of the loop body (lines 94-95).
FeasibleOf(cols, ifeas) ==
    LET cell == IF ifeas >= 0 THEN At(cols, ifeas) ELSE <<>>
        rawFeas == IF cell = Undefined THEN <<>> ELSE cell
    IN  FeasibleRegexTest(Trim(rawFeas))

\* String(i - i): the same id for every row.
DefaultIdTypo(i) == NumToString(i - i)

\* The id a row gets when the file has no id column: String(i - 1).
DefaultId(i) == NumToString(i - 1)

\* The record the loop body pushes for line i (lines 97-104).
RowOf(cols, h, i) ==
    [id |-> IF h.iid >= 0 THEN At(cols, h.iid) ELSE DefaultId(i),
     latentx1 |-> ParseFloat(At(cols, h.ix)).v,
     latentx2 |-> ParseFloat(At(cols, h.iy)).v,
     design_var_1 |-> IF h.idv1 >= 0 THEN At(cols, h.idv1) ELSE <<>>,
     design_var_2 |-> IF h.idv2 >= 0 THEN At(cols, h.idv2) ELSE <<>>,
     feasible |-> FeasibleOf(cols, h.ifeas)]

\* if (!Number.isFinite(x) || !Number.isFinite(y)) continue;
Skipped(cols, h) == ParseFloat(At(cols, h.ix)).nan \/ ParseFloat(At(cols, h.iy)).nan

\* parseCSV as a function of its text: threw (the header lacks a coordinate
\* column) or the rows, in line order.
ParseCSV(text) ==
    LET delim == Delim(text)
        lines == Lines(text)
        h == HeaderIndexes(lines[1], delim)
        RECURSIVE Rows(_)
        Rows(i) ==
            IF i >= Len(lines) THEN <<>>
            ELSE LET cols == Cells(lines[i + 1], delim)
                 IN  (IF Skipped(cols, h) THEN <<>> ELSE <<RowOf(cols, h, i)>>)
                         \o Rows(i + 1)
    IN  IF lines = <<>> THEN [threw |-> FALSE, rows |-> <<>>]
        ELSE IF h.ix < 0 \/ h.iy < 0 THEN [threw |-> TRUE, rows |-> <<>>]
        ELSE [threw |-> FALSE, rows |-> Rows(1)]

\* The locals of parseCSV before its first statement, called on `text`;
\* pass counts the calls of one round trip (1: the file, 2: the export).
ParseCall(text, pass) ==
    [pc |-> "start", pass |-> pass, text |-> text, delim |-> ",", lines |-> <<>>,
     ix |-> -1, iy |-> -1, iid |-> -1, idv1 |-> -1, idv2 |-> -1, ifeas |-> -1,
     i |-> 0, cols |-> <<>>, kept |-> FALSE, rows |-> <<>>]

ParseIdle == [ParseCall(<<>>, 0) EXCEPT !.pc = "idle"]

ParseHdr == [ix |-> parse.ix, iy |-> parse.iy, iid |-> parse.iid,
             idv1 |-> parse.idv1, idv2 |-> parse.idv2, ifeas |-> parse.ifeas]

\* Lines 68-86: delimiter, lines, the empty-file return, the header and the
\* schema check.
ParseHeader ==
    /\ parse.pc = "start"
    /\ LET delim == Delim(parse.text)
           lines == Lines(parse.text)
           h == HeaderIndexes(lines[1], delim)
       IN  parse' =
             IF lines = <<>>
             THEN [parse EXCEPT !.pc = "done", !.delim = delim]
             ELSE IF h.ix < 0 \/ h.iy < 0
             THEN [parse EXCEPT !.pc = "threw", !.delim = delim, !.lines = lines,
                                !.ix = h.ix, !.iy = h.iy]
             ELSE [parse EXCEPT !.pc = "loop", !.delim = delim, !.lines = lines,
                                !.ix = h.ix, !.iy = h.iy, !.iid = h.iid,
                                !.idv1 = h.idv1, !.idv2 = h.idv2,
                                !.ifeas = h.ifeas, !.i = 1]
    /\ UNCHANGED <<data, loading, viewState, gridStep, showGrid, selected,
                   isSelecting, selectionBounds, loads, toast, window, drag,
                   csv, grid>>

\* One iteration of the for loop (lines 87-105).
ParseRow ==
    /\ parse.pc = "loop"
    /\ parse.i < Len(parse.lines)
    /\ LET cols == Cells(parse.lines[parse.i + 1], parse.delim)
           skip == Skipped(cols, ParseHdr)
       IN  parse' = [parse EXCEPT
                       !.cols = cols,
                       !.kept = ~skip,
                       !.rows = IF skip THEN @ ELSE Append(@, RowOf(cols, ParseHdr, parse.i)),
                       !.i = @ + 1]
    /\ UNCHANGED <<data, loading, viewState, gridStep, showGrid, selected,
                   isSelecting, selectionBounds, loads, toast, window, drag,
                   csv, grid>>

\* The loop condition fails: return rows (line 107).
ParseReturn ==
    /\ parse.pc = "loop"
    /\ parse.i >= Len(parse.lines)
    /\ parse' = [parse EXCEPT !.pc = "done"]
    /\ UNCHANGED <<data, loading, viewState, gridStep, showGrid, selected,
                   isSelecting, selectionBounds, loads, toast, window, drag,
                   csv, grid>>

-----------------------------------------------------------------------------
(* The selection map and handleSelectionExport (lines 45, 250-271)         *)

\* Map.prototype.set on a Map kept as its entries in insertion order: a key
\* already present keeps its place and takes the new value.
MapSet(m, k, v) ==
    IF \E j \in 1..Len(m) : m[j].key = k
    THEN [j \in 1..Len(m) |-> IF m[j].key = k THEN [key |-> k, value |-> v] ELSE m[j]]
    ELSE Append(m, [key |-> k, value |-> v])

\* Array.from(selected.values()) (line 278).
MapValues(m) == [j \in 1..Len(m) |-> m[j].value]

\* Boolean.prototype.toString.
BoolToString(b) == IF b THEN S_true ELSE S_false

\* The header row and one row per selected record (lines 253-256).
ExportRows(m) ==
    << <<S_id, S_latentx1, S_latentx2, S_design_var_1, S_design_var_2, S_feasible>> >>
    \o [j \in 1..Len(m) |->
          LET d == m[j].value
          IN  <<d.id, NumToString(d.latentx1), NumToString(d.latentx2),
                d.design_var_1, d.design_var_2, BoolToString(d.feasible)>>]

\* const csv = rows.map(r => r.join(',')).join('\n') (line 258).
ExportCsv(m) ==
    LET rows == ExportRows(m)
    IN  Join([j \in 1..Len(rows) |-> Join(rows[j], ",")], LF)

\* No Blob has been made yet.
NoCsv == <<"none">>

\* The records of rows[k], k in S, put into an empty Map under their ids in
\* row order: the selections a Dataset admits.
RECURSIVE SelectionOf(_, _, _)
SelectionOf(rows, S, k) ==
    IF k = 0 THEN <<>>
    ELSE LET before == SelectionOf(rows, S, k - 1)
         IN  IF k \in S THEN MapSet(before, rows[k].id, rows[k]) ELSE before

\* A non-empty subset of the parsed rows becomes the selection.
SelectRows(S) ==
    /\ parse.pc = "done" /\ parse.pass = 1
    /\ selected = <<>> /\ csv = NoCsv
    /\ S # {}
    /\ selected' = SelectionOf(parse.rows, S, Len(parse.rows))
    /\ UNCHANGED <<data, loading, viewState, gridStep, showGrid, isSelecting,
                   selectionBounds, loads, toast, window, drag, parse, csv, grid>>

\* handleSelectionExport: nothing when the selection is empty, else the CSV
\* text goes into the Blob and the toast is shown.
HandleSelectionExport ==
    /\ parse.pc = "done" /\ parse.pass = 1
    /\ csv = NoCsv
    /\ Len(selected) # 0
    /\ csv' = ExportCsv(selected)
    /\ toast' = "Export complete"
    /\ UNCHANGED <<data, loading, viewState, gridStep, showGrid, selected,
                   isSelecting, selectionBounds, loads, window, drag, parse, grid>>

\* clearSelection (lines 273-276), on the Clear button with
\* disabled={selected.size === 0}.
ClearSelection ==
    /\ Len(selected) # 0
    /\ selected' = <<>>
    /\ selectionBounds' = "null"
    /\ UNCHANGED <<data, loading, viewState, gridStep, showGrid, isSelecting,
                   loads, toast, window, drag, parse, csv, grid>>

\* The exported text is given to parseCSV.
Reparse ==
    /\ parse.pass = 1 /\ csv # NoCsv
    /\ parse' = ParseCall(csv, 2)
    /\ UNCHANGED <<data, loading, viewState, gridStep, showGrid, selected,
                   isSelecting, selectionBounds, loads, toast, window, drag,
                   csv, grid>>

-----------------------------------------------------------------------------
(* The files served at /data/combined.csv                                  *)

\* Most data rows of a file.
MaxRows == 2

\* Header rows: the text of each column name and the field it carries.
HdrFull == <<[name |-> S_id, key |-> "id"], [name |-> S_latentx1, key |-> "x"],
             [name |-> S_latentx2, key |-> "y"], [name |-> S_design_var_1, key |-> "dv1"],
             [name |-> S_design_var_2, key |-> "dv2"], [name |-> S_feasible, key |-> "feas"]>>
HdrNoId == <<[name |-> S_latentx1, key |-> "x"], [name |-> S_latentx2, key |-> "y"],
             [name |-> S_feasible, key |-> "feas"]>>
HdrMixed == <<[name |-> <<" ", "L", "a", "t", "e", "n", "t", "X", "1">>, key |-> "x"],
              [name |-> <<"L", "A", "T", "E", "N", "T", "X", "2", " ">>, key |-> "y"],
              [name |-> <<"I", "D">>, key |-> "id"],
              [name |-> <<"F", "e", "a", "s", "i", "b", "l", "e">>, key |-> "feas"]>>
HdrYX == <<[name |-> S_latentx2, key |-> "y"], [name |-> S_latentx1, key |-> "x"]>>
HdrBad == <<[name |-> S_id, key |-> "id"], [name |-> <<"x">>, key |-> "x"],
            [name |-> <<"y">>, key |-> "y"]>>

\* Data rows by field; cut > 0 ends the row after that many cells.
RowA == [id |-> <<"a">>, x |-> <<"1">>, y |-> <<"2">>, dv1 |-> <<"p">>,
         dv2 |-> <<>>, feas |-> S_true, cut |-> 0]
RowB == [id |-> <<"b">>, x |-> <<"-", "3">>, y |-> <<"1", "0">>, dv1 |-> <<"u", ",", "v">>,
         dv2 |-> <<"q">>, feas |-> <<"0", "1">>, cut |-> 0]
RowC == [id |-> <<"c">>, x |-> <<"a", "b", "c">>, y |-> <<"5">>, dv1 |-> <<>>,
         dv2 |-> <<>>, feas |-> <<"1">>, cut |-> 0]
RowD == [id |-> <<"7">>, x |-> <<"0">>, y |-> <<"0">>, dv1 |-> <<"x", ";", "y">>,
         dv2 |-> <<>>, feas |-> <<"T", "R", "U", "E", "x">>, cut |-> 0]
RowE == [id |-> <<"e">>, x |-> <<" ", "1", "2", " ">>, y |-> <<"4", "x">>, dv1 |-> <<>>,
         dv2 |-> <<"r", " ", "s">>, feas |-> <<" ", "1", "x">>, cut |-> 0]
RowF == [id |-> <<"f">>, x |-> <<"4">>, y |-> <<"-", "4">>, dv1 |-> <<>>,
         dv2 |-> <<>>, feas |-> S_false, cut |-> 2]
RowPool == {RowA, RowB, RowC, RowD, RowE, RowF}

\* Delimiter, line terminator and what follows the last line.
FmtComma == [delim |-> ",", eol |-> <<LF>>, tail |-> <<>>]
FmtSemi == [delim |-> ";", eol |-> <<CR, LF>>, tail |-> <<CR, LF>>]
FmtTab == [delim |-> TAB, eol |-> <<LF>>, tail |-> <<LF, LF>>]

RowCells(hdr, r) ==
    LET all == [k \in 1..Len(hdr) |-> r[hdr[k].key]]
    IN  IF r.cut > 0 /\ r.cut < Len(all) THEN SubSeq(all, 1, r.cut) ELSE all

RECURSIVE Concat(_, _)
Concat(parts, sep) ==
    IF parts = <<>> THEN <<>>
    ELSE IF Len(parts) = 1 THEN Head(parts)
    ELSE Head(parts) \o sep \o Concat(Tail(parts), sep)

\* The text of the file with header hdr and data rows rs in format fmt.
FileText(fmt, hdr, rs) ==
    LET head == Join([k \in 1..Len(hdr) |-> hdr[k].name], fmt.delim)
        body == [k \in 1..Len(rs) |-> Join(RowCells(hdr, rs[k]), fmt.delim)]
    IN  Concat(<<head>> \o body, fmt.eol) \o fmt.tail

RowSeqs == UNION {[1..k -> RowPool] : k \in 0..MaxRows}

FileShapes == {<<FmtComma, HdrFull>>, <<FmtSemi, HdrFull>>, <<FmtTab, HdrFull>>,
               <<FmtComma, HdrNoId>>, <<FmtComma, HdrYX>>, <<FmtSemi, HdrMixed>>,
               <<FmtTab, HdrBad>>}

\* The texts parseCSV is tried on.
CsvTexts == {<<>>} \cup {FileText(sh[1], sh[2], rs) : sh \in FileShapes, rs \in RowSeqs}

-----------------------------------------------------------------------------
(* ViewState and zoomToFit (lines 24-28, 33-36, 110-135)                   *)

\* target: the x and y of the target, doubled, so that (min + max) / 2 of
\* integer coordinates stays an integer; NaN apart.
Target(x2, y2) == [nan |-> FALSE, x2 |-> x2, y2 |-> y2]
TargetNaN == [nan |-> TRUE, x2 |-> 0, y2 |-> 0]

\* zoom: log2 of the scale num / (den * unit), kept as that fraction; unit
\* is "1e-9" when the span is the floor Math.max(1e-9, .) and "1" otherwise.
Zoom(num, den, unit) == [num |-> num, den |-> den, unit |-> unit]

\* bounds: absent, [minX, minY, maxX, maxY], or the box of no point at all,
\* [Infinity, Infinity, -Infinity, -Infinity] (Math.min() and Math.max()
\* of an empty list).
NoBounds == [kind |-> "none", box |-> <<0, 0, 0, 0>>]
EmptyBox == [kind |-> "empty", box |-> <<0, 0, 0, 0>>]
Box(minX, minY, maxX, maxY) == [kind |-> "box", box |-> <<minX, minY, maxX, maxY>>]

\* useState<ViewState>({ target: [0, 0, 0], zoom: 0 })
InitialViewState == [target |-> Target(0, 0), zoom |-> Zoom(1, 1, "1"), bounds |-> NoBounds]

Max2(a, b) == IF a >= b THEN a ELSE b
Min2(a, b) == IF a <= b THEN a ELSE b

\* Math.min(...xs) and Math.max(...xs) of a non-empty list of integers.
MinOf(xs) == CHOOSE m \in {xs[k] : k \in 1..Len(xs)} : \A k \in 1..Len(xs) : m <= xs[k]
MaxOf(xs) == CHOOSE m \in {xs[k] : k \in 1..Len(xs)} : \A k \in 1..Len(xs) : m >= xs[k]

\* zoom = Math.log2(Math.max(scale, 1e-6)), scale = screenSpan / span,
\* span = Math.max(w, h) * 1.1 (lines 118-128); m = max(maxX - minX, maxY - minY).
ZoomOf(m, win) ==
    LET vw == Max2(1, win.innerWidth)
        vh == Max2(1, win.innerHeight)
        screenSpan == Min2(vw, vh)
    IN  IF m <= 0 THEN Zoom(10 * screenSpan, 11, "1e-9")
        ELSE IF screenSpan <= (11 * m - 1) \div 10000000 THEN Zoom(1, 1000000, "1")
        ELSE Zoom(10 * screenSpan, 11 * m, "1")

\* zoomToFit(data) with the default margin 0.1.
ZoomToFit(d, win) ==
    IF d = <<>>
    THEN [target |-> TargetNaN, zoom |-> ZoomOf(0, win), bounds |-> EmptyBox]
    ELSE LET xs == [k \in 1..Len(d) |-> d[k].latentx1]
             ys == [k \in 1..Len(d) |-> d[k].latentx2]
             minX == MinOf(xs)
             maxX == MaxOf(xs)
             minY == MinOf(ys)
             maxY == MaxOf(ys)
         IN  [target |-> Target(minX + maxX, minY + maxY),
              zoom |-> ZoomOf(Max2(maxX - minX, maxY - minY), win),
              bounds |-> Box(minX, minY, maxX, maxY)]

-----------------------------------------------------------------------------
(* loadCSV and the Load CSV button (lines 137-167, 286-294)                *)

\* Most loadCSV calls suspended at once that the model follows.
MaxLoads == 2

\* The bodies a successful response may carry.
ResponseTexts ==
    {<<>>,
     FileText(FmtComma, HdrFull, <<>>),
     FileText(FmtComma, HdrFull, <<RowA, RowB>>),
     FileText(FmtSemi, HdrMixed, <<RowD, RowC, RowE>>),
     FileText(FmtTab, HdrNoId, <<RowF>>),
     FileText(FmtTab, HdrBad, <<RowA>>)}

\* The window sizes zoomToFit may read.
WindowSizes == {[innerWidth |-> 800, innerHeight |-> 600],
                [innerWidth |-> 0, innerHeight |-> 600]}

RemoveAt(q, k) == SubSeq(q, 1, k - 1) \o SubSeq(q, k + 1, Len(q))

\* loadCSV called by a button that is not disabled while loading.
LoadClickUngated ==
    /\ Len(loads) < MaxLoads
    /\ loading' = TRUE
    /\ loads' = Append(loads, [pc |-> "fetch"])
    /\ UNCHANGED <<data, viewState, gridStep, showGrid, selected, isSelecting,
                   selectionBounds, toast, window, drag, parse, csv, grid>>

\* onClick={loadCSV} on the button with disabled={loading}: setLoading(true)
\* and the fetch is sent (lines 138-140).
LoadClick ==
    /\ ~loading
    /\ Len(loads) < MaxLoads
    /\ loading' = TRUE
    /\ loads' = Append(loads, [pc |-> "fetch"])
    /\ UNCHANGED <<data, viewState, gridStep, showGrid, selected, isSelecting,
                   selectionBounds, toast, window, drag, parse, csv, grid>>

\* The catch and finally blocks (lines 156-166) ending call k.
LoadFailed(k) ==
    /\ toast' = "Error loading data"
    /\ loading' = FALSE
    /\ loads' = RemoveAt(loads, k)

\* The fetch rejects, or resolves with !response.ok (lines 140-143).
FetchFails(k) ==
    /\ k \in 1..Len(loads) /\ loads[k].pc = "fetch"
    /\ LoadFailed(k)
    /\ UNCHANGED <<data, viewState, gridStep, showGrid, selected, isSelecting,
                   selectionBounds, window, drag, parse, csv, grid>>

\* The fetch resolves with response.ok; the call awaits response.text().
FetchResponds(k) ==
    /\ k \in 1..Len(loads) /\ loads[k].pc = "fetch"
    /\ loads' = [loads EXCEPT ![k].pc = "text"]
    /\ UNCHANGED <<data, loading, viewState, gridStep, showGrid, selected,
                   isSelecting, selectionBounds, toast, window, drag, parse, csv, grid>>

\* response.text() rejects (line 145).
TextFails(k) ==
    /\ k \in 1..Len(loads) /\ loads[k].pc = "text"
    /\ LoadFailed(k)
    /\ UNCHANGED <<data, viewState, gridStep, showGrid, selected, isSelecting,
                   selectionBounds, window, drag, parse, csv, grid>>

\* The same with the data set before the header is checked.
TextArrivesSetFirst(k, text) ==
    /\ k \in 1..Len(loads) /\ loads[k].pc = "text"
    /\ LET parsed == ParseCSV(text)
       IN  IF parsed.threw
           THEN /\ LoadFailed(k)
                /\ data' = parsed.rows
                /\ UNCHANGED viewState
           ELSE /\ data' = parsed.rows
                /\ viewState' = ZoomToFit(parsed.rows, window)
                /\ toast' = "Data loaded successfully"
                /\ loading' = FALSE
                /\ loads' = RemoveAt(loads, k)
    /\ UNCHANGED <<gridStep, showGrid, selected, isSelecting, selectionBounds,
                   window, drag, parse, csv, grid>>

\* The same with the fit taken of the data state the call closed over.
TextArrivesStaleFit(k, text) ==
    /\ k \in 1..Len(loads) /\ loads[k].pc = "text"
    /\ LET parsed == ParseCSV(text)
       IN  IF parsed.threw
           THEN /\ LoadFailed(k)
                /\ UNCHANGED <<data, viewState>>
           ELSE /\ data' = parsed.rows
                /\ viewState' = ZoomToFit(data, window)
                /\ toast' = "Data loaded successfully"
                /\ loading' = FALSE
                /\ loads' = RemoveAt(loads, k)
    /\ UNCHANGED <<gridStep, showGrid, selected, isSelecting, selectionBounds,
                   window, drag, parse, csv, grid>>

\* response.text() resolves with `text` (lines 145-155, 164-166): parseCSV
\* throws and the catch runs, or the data and its fit are set.
TextArrives(k, text) ==
    /\ k \in 1..Len(loads) /\ loads[k].pc = "text"
    /\ LET parsedData == ParseCSV(text)
       IN  IF parsedData.threw
           THEN /\ LoadFailed(k)
                /\ UNCHANGED <<data, viewState>>
           ELSE /\ data' = parsedData.rows
                /\ viewState' = ZoomToFit(parsedData.rows, window)
                /\ toast' = "Data loaded successfully"
                /\ loading' = FALSE
                /\ loads' = RemoveAt(loads, k)
    /\ UNCHANGED <<gridStep, showGrid, selected, isSelecting, selectionBounds,
                   window, drag, parse, csv, grid>>

\* The browser window is resized.
Resize(win) ==
    /\ win # window
    /\ window' = win
    /\ UNCHANGED <<data, loading, viewState, gridStep, showGrid, selected,
                   isSelecting, selectionBounds, loads, toast, drag, parse, csv, grid>>

-----------------------------------------------------------------------------
(* The DeckGL element (lines 370-378)                                      *)

\* What the controller reports of a pan or zoom.
ReportedTargets == {Target(0, 0), Target(4, -2)}
ReportedZooms == {Zoom(1, 1, "1"), Zoom(2, 1, "1")}

\* The view states the controller may hand to onViewStateChange: it makes
\* them from the props it knows (target, zoom); whether a prop it does not
\* know (bounds) is carried over is the library's business, so both happen.
ReportedViewStates ==
    {[target |-> t, zoom |-> z, bounds |-> b] :
        t \in ReportedTargets, z \in ReportedZooms, b \in {NoBounds, viewState.bounds}}

\* onViewStateChange={({ viewState }) => setViewState(viewState)}
OnViewStateChange(vs) ==
    /\ vs # viewState
    /\ viewState' = vs
    /\ UNCHANGED <<data, loading, gridStep, showGrid, selected, isSelecting,
                   selectionBounds, loads, toast, window, drag, parse, csv, grid>>

\* World positions under the pointer at the ends of a shift-drag.
DragCorners == {<<-5, -5>>, <<2, 3>>, <<15, 15>>}

NoDrag == [on |-> FALSE, rect |-> <<0, 0, 0, 0>>]

\* Shift is held and the pointer goes down at p: no handler of the
\* component is bound to the gesture, so no state of it changes.
ShiftDragStart(p) ==
    /\ ~drag.on
    /\ drag' = [on |-> TRUE, rect |-> <<p[1], p[2], p[1], p[2]>>]
    /\ UNCHANGED <<data, loading, viewState, gridStep, showGrid, selected,
                   isSelecting, selectionBounds, loads, toast, window, parse, csv, grid>>

\* The pointer moves to q during the shift-drag.
ShiftDragMove(q) ==
    /\ drag.on
    /\ drag.rect[3] # q[1] \/ drag.rect[4] # q[2]
    /\ drag' = [drag EXCEPT !.rect = <<@[1], @[2], q[1], q[2]>>]
    /\ UNCHANGED <<data, loading, viewState, gridStep, showGrid, selected,
                   isSelecting, selectionBounds, loads, toast, window, parse, csv, grid>>

\* The pointer goes up: the gesture is complete.
ShiftDragEnd ==
    /\ drag.on
    /\ drag' = [drag EXCEPT !.on = FALSE]
    /\ UNCHANGED <<data, loading, viewState, gridStep, showGrid, selected,
                   isSelecting, selectionBounds, loads, toast, window, parse, csv, grid>>

-----------------------------------------------------------------------------
(* The component: loads, pans and zooms, shift-drags                       *)

\* gridStep: null, or a number of world units.
Null == [null |-> TRUE, v |-> 0]
Step(n) == [null |-> FALSE, v |-> n]

GridIdle == [pc |-> "idle"]

\* The state after the first render (lines 31-61).
Mounted ==
    /\ data = <<>>
    /\ loading = FALSE
    /\ gridStep = Null
    /\ showGrid = TRUE
    /\ selected = <<>>
    /\ isSelecting = FALSE
    /\ selectionBounds = "null"
    /\ loads = <<>>
    /\ toast = ""
    /\ drag = NoDrag
    /\ csv = NoCsv

Init ==
    /\ Mounted
    /\ viewState = InitialViewState
    /\ window \in WindowSizes
    /\ parse = ParseIdle
    /\ grid = GridIdle

Next ==
    \/ LoadClick
    \/ \E k \in 1..Len(loads) : FetchFails(k)
    \/ \E k \in 1..Len(loads) : FetchResponds(k)
    \/ \E k \in 1..Len(loads) : TextFails(k)
    \/ \E k \in 1..Len(loads), text \in ResponseTexts : TextArrives(k, text)
    \/ \E win \in WindowSizes : Resize(win)
    \/ \E vs \in ReportedViewStates : OnViewStateChange(vs)
    \/ \E p \in DragCorners : ShiftDragStart(p)
    \/ \E q \in DragCorners : ShiftDragMove(q)
    \/ ShiftDragEnd

Spec == Init /\ [][Next]_vars

-----------------------------------------------------------------------------
(* parseCSV and the export round trip, on every text of CsvTexts           *)

InitCsv ==
    /\ Mounted
    /\ viewState = InitialViewState
    /\ window = [innerWidth |-> 800, innerHeight |-> 600]
    /\ grid = GridIdle
    /\ \E t \in CsvTexts : parse = ParseCall(t, 1)

NextCsv ==
    \/ ParseHeader
    \/ ParseRow
    \/ ParseReturn
    \/ \E S \in SUBSET (1..Len(parse.rows)) : SelectRows(S)
    \/ HandleSelectionExport
    \/ ClearSelection
    \/ Reparse

SpecCsv == InitCsv /\ [][NextCsv]_vars

-----------------------------------------------------------------------------
(* buildGridPaths, the grid layer and the Step input (lines 169-208,       *)
(* 324-344).  Lengths inside buildGridPaths are in tenths of a world unit, *)
(* so that Math.max(dx, dy) / 10 of integer bounds stays an integer; the   *)
(* 1e-9 added to the loop limits is below that resolution.                 *)

MAX == 400

\* Math.floor(a / b) and Math.ceil(a / b) for integers a and b # 0.
FloorDiv(a, b) == IF b > 0 THEN a \div b ELSE (0 - a) \div (0 - b)
CeilDiv(a, b) == 0 - FloorDiv(0 - a, b)

\* The texts the Step input may hold (e.target.value).
StepInputs == {<<>>, <<"0">>, <<"1">>, <<"5">>, <<"-", "1">>, <<"2", "5", "0">>}

\* The bounds a fit may have stored.
GridBounds == {EmptyBox, Box(3, 3, 3, 3), Box(0, 0, 10, 10), Box(-7, 2, 12, 4),
               Box(0, 0, 1000, 1000), Box(5, 5, 5, 900)}

\* onChange of the Step input (line 341):
\* setGridStep(e.target.value ? parseFloat(e.target.value) : null)
SetGridStep(value) ==
    /\ grid.pc = "idle"
    /\ LET new == IF value # <<>> THEN Step(ParseFloat(value).v) ELSE Null
       IN  new # gridStep /\ gridStep' = new
    /\ UNCHANGED <<data, loading, viewState, showGrid, selected, isSelecting,
                   selectionBounds, loads, toast, window, drag, parse, csv, grid>>

\* onCheckedChange of the Grid checkbox (line 328).
ToggleGrid ==
    /\ grid.pc = "idle"
    /\ showGrid' = ~showGrid
    /\ UNCHANGED <<data, loading, viewState, gridStep, selected, isSelecting,
                   selectionBounds, loads, toast, window, drag, parse, csv, grid>>

\* const safeStep = step || Math.max(dx, dy) / 10 (lines 170-173), in
\* tenths, for a box of integers b and step = gridStep || undefined.
SafeStep(b, step) ==
    LET dx == b[3] - b[1]
        dy == b[4] - b[2]
    IN  IF ~step.null /\ step.v # 0 THEN 10 * step.v ELSE Max2(dx, dy)

\* Lines 170-182: the locals before the first loop.  finite is FALSE when
\* startX .. endY are not finite numbers with start <= end possible: the
\* step is 0 (every quotient is NaN or infinite), or the box is that of no
\* point (startX = Infinity and endX = -Infinity, or NaN); no loop then
\* reads safeStep or a limit, and they are kept as 0.
GridCall(bounds, step) ==
    LET b == [k \in 1..4 |-> 10 * bounds.box[k]]
        safeStep == IF bounds.kind = "box" THEN SafeStep(bounds.box, step) ELSE 0
        finite == bounds.kind = "box" /\ safeStep # 0
        s == IF finite THEN safeStep ELSE 1
        startX == FloorDiv(b[1], s) * s
        startY == FloorDiv(b[2], s) * s
    IN  [pc |-> "vloop", bounds |-> bounds, step |-> step, finite |-> finite,
         safeStep |-> safeStep,
         startX |-> startX, endX |-> CeilDiv(b[3], s) * s,
         startY |-> startY, endY |-> CeilDiv(b[4], s) * s,
         x |-> startX, y |-> startY, count |-> 0, vertical |-> 0, lines |-> <<>>]

\* The layers memo runs buildGridPaths(viewState.bounds, gridStep || undefined)
\* when showGrid && viewState.bounds (lines 207-208).
BuildGridPaths ==
    /\ grid.pc = "idle"
    /\ showGrid /\ viewState.bounds.kind # "none"
    /\ grid' = GridCall(viewState.bounds, gridStep)
    /\ UNCHANGED <<data, loading, viewState, gridStep, showGrid, selected,
                   isSelecting, selectionBounds, loads, toast, window, drag, parse, csv>>

\* major: Math.abs((c / safeStep) % 5) < 1e-9, c a multiple of safeStep.
Major(c, safeStep) == FloorDiv(c, safeStep) % 5 = 0

\* One iteration of the first loop (lines 184-190).
VerticalLine ==
    /\ grid.pc = "vloop"
    /\ grid.finite /\ grid.x <= grid.endX
    /\ LET line == [path |-> <<<<grid.x, grid.startY>>, <<grid.x, grid.endY>>>>,
                    major |-> Major(grid.x, grid.safeStep)]
           count == grid.count + 1
       IN  grid' = IF count > MAX
                   THEN [grid EXCEPT !.lines = Append(@, line), !.count = count,
                                     !.vertical = count, !.pc = "hloop"]
                   ELSE [grid EXCEPT !.lines = Append(@, line), !.count = count,
                                     !.x = @ + grid.safeStep]
    /\ UNCHANGED <<data, loading, viewState, gridStep, showGrid, selected,
                   isSelecting, selectionBounds, loads, toast, window, drag, parse, csv>>

\* The condition of the first loop fails.
VerticalDone ==
    /\ grid.pc = "vloop"
    /\ ~(grid.finite /\ grid.x <= grid.endX)
    /\ grid' = [grid EXCEPT !.pc = "hloop", !.vertical = grid.count]
    /\ UNCHANGED <<data, loading, viewState, gridStep, showGrid, selected,
                   isSelecting, selectionBounds, loads, toast, window, drag, parse, csv>>

\* One iteration of the second loop (lines 192-198).
HorizontalLine ==
    /\ grid.pc = "hloop"
    /\ grid.finite /\ grid.y <= grid.endY
    /\ LET line == [path |-> <<<<grid.startX, grid.y>>, <<grid.endX, grid.y>>>>,
                    major |-> Major(grid.y, grid.safeStep)]
           count == grid.count + 1
       IN  grid' = IF count > MAX * 2
                   THEN [grid EXCEPT !.lines = Append(@, line), !.count = count,
                                     !.pc = "done"]
                   ELSE [grid EXCEPT !.lines = Append(@, line), !.count = count,
                                     !.y = @ + grid.safeStep]
    /\ UNCHANGED <<data, loading, viewState, gridStep, showGrid, selected,
                   isSelecting, selectionBounds, loads, toast, window, drag, parse, csv>>

\* The condition of the second loop fails: return lines (line 200).
HorizontalDone ==
    /\ grid.pc = "hloop"
    /\ ~(grid.finite /\ grid.y <= grid.endY)
    /\ grid' = [grid EXCEPT !.pc = "done"]
    /\ UNCHANGED <<data, loading, viewState, gridStep, showGrid, selected,
                   isSelecting, selectionBounds, loads, toast, window, drag, parse, csv>>

\* The render is over; the next change of an input runs the memo again.
Rendered ==
    /\ grid.pc = "done"
    /\ grid' = GridIdle
    /\ UNCHANGED <<data, loading, viewState, gridStep, showGrid, selected,
                   isSelecting, selectionBounds, loads, toast, window, drag, parse, csv>>

InitGrid ==
    /\ Mounted
    /\ window = [innerWidth |-> 800, innerHeight |-> 600]
    /\ parse = ParseIdle
    /\ grid = GridIdle
    /\ \E b \in GridBounds :
          viewState = [target |-> Target(0, 0), zoom |-> Zoom(1, 1, "1"), bounds |-> b]

NextGrid ==
    \/ \E value \in StepInputs : SetGridStep(value)
    \/ ToggleGrid
    \/ BuildGridPaths
    \/ VerticalLine
    \/ VerticalDone
    \/ HorizontalLine
    \/ HorizontalDone
    \/ Rendered

SpecGrid == InitGrid /\ [][NextGrid]_vars

-----------------------------------------------------------------------------
(* Properties                                                              *)

\* C1: buildGridPaths returns at most 400 vertical lines and at most 400
\* horizontal lines, hence at most 800 lines, whatever the bounds and step.
C1_GridLineCaps ==
    grid.pc = "done" =>
        /\ grid.vertical <= MAX
        /\ Len(grid.lines) - grid.vertical <= MAX
        /\ Len(grid.lines) <= 2 * MAX

\* The record at (latentx1, latentx2) lies in the rectangle with corners
\* (r[1], r[2]) and (r[3], r[4]).
InRect(d, r) ==
    /\ Min2(r[1], r[3]) <= d.latentx1 /\ d.latentx1 <= Max2(r[1], r[3])
    /\ Min2(r[2], r[4]) <= d.latentx2 /\ d.latentx2 <= Max2(r[2], r[4])

\* C2: when a shift-drag ends, every record of the dataset inside the
\* finalized rectangle is in the selection under its id, and every entry
\* the selection held before is still in it.
C2_GestureUnionsSelection ==
    [][(drag.on /\ ~drag'.on) =>
          /\ \A k \in 1..Len(data') :
                InRect(data'[k], drag.rect) =>
                    \E j \in 1..Len(selected') :
                        selected'[j] = [key |-> data'[k].id, value |-> data'[k]]
          /\ \A j \in 1..Len(selected) :
                \E i \in 1..Len(selected') : selected'[i] = selected[j]]_vars

\* C3: no step of a load other than its successful end changes data or
\* viewState: a load that ends in the error toast, whether the fetch or the
\* body failed or the header lacks a coordinate column, leaves both as they
\* were before the attempt.
C3_FailedLoadKeepsState ==
    [][(loads' # loads
          /\ ~(Len(loads') < Len(loads) /\ toast' = "Data loaded successfully")) =>
          (data' = data /\ viewState' = viewState)]_vars

\* A load failed after an earlier one had installed data and its fit.
C3_Witness ==
    /\ toast = "Error loading data"
    /\ Len(data) > 0
    /\ viewState.bounds.kind = "box"
    /\ ~loading

\* C4: at most one loadCSV call is in flight, and the loading flag is set
\* exactly while one is: the button starts no fetch while loading.
C4_OneFetchInFlight ==
    /\ Len(loads) <= 1
    /\ loading <=> (Len(loads) = 1)

\* A load is in flight, past its fetch, with the button disabled.
C4_Witness == loading /\ Len(loads) = 1 /\ loads[1].pc = "text" /\ Len(data) > 0

\* C5: a pan or zoom reported by the rendering surface leaves
\* viewState.bounds as it was.
C5_PanZoomKeepsBounds ==
    [][(viewState' # viewState /\ loads' = loads) =>
          viewState'.bounds = viewState.bounds]_vars

\* The bounds b are the bounding box of the records d, not grown.
TightBox(b, d) ==
    IF d = <<>> THEN b = EmptyBox
    ELSE /\ b.kind = "box"
         /\ \A k \in 1..Len(d) :
               /\ b.box[1] <= d[k].latentx1 /\ d[k].latentx1 <= b.box[3]
               /\ b.box[2] <= d[k].latentx2 /\ d[k].latentx2 <= b.box[4]
         /\ \E k \in 1..Len(d) : d[k].latentx1 = b.box[1]
         /\ \E k \in 1..Len(d) : d[k].latentx1 = b.box[3]
         /\ \E k \in 1..Len(d) : d[k].latentx2 = b.box[2]
         /\ \E k \in 1..Len(d) : d[k].latentx2 = b.box[4]

\* C6: a load that ends in the success toast installs the rows of its
\* response and the fit of exactly those rows, with the bounding box of
\* those rows, not grown, as bounds.
C6_LoadFitsItsDataset ==
    [][(Len(loads') < Len(loads) /\ toast' = "Data loaded successfully") =>
          /\ \E t \in ResponseTexts : ~ParseCSV(t).threw /\ data' = ParseCSV(t).rows
          /\ viewState' = ZoomToFit(data', window)
          /\ TightBox(viewState'.bounds, data')]_vars

\* A successful load of two or more points, its fit in place.
C6_Witness ==
    /\ toast = "Data loaded successfully"
    /\ Len(data) >= 2
    /\ viewState = ZoomToFit(data, window)
    /\ viewState.bounds.box[1] < viewState.bounds.box[3]

\* C7: the effective step is the explicit step when it is given and
\* positive, and max(width, height) / 10 of the bounds otherwise (absent,
\* zero or negative).
C7_EffectiveStep ==
    (grid.pc # "idle" /\ grid.bounds.kind = "box") =>
        LET b == grid.bounds.box
        IN  grid.safeStep = IF ~grid.step.null /\ grid.step.v > 0
                            THEN 10 * grid.step.v
                            ELSE Max2(b[3] - b[1], b[4] - b[2])

\* C8: parseCSV of the exported text returns the selected records, field
\* for field.
C8_ExportRoundTrip ==
    (parse.pass = 2 /\ parse.pc \in {"done", "threw"}) =>
        (parse.pc = "done" /\ parse.rows = MapValues(selected))

\* The trimmed feasible cell of the line the loop has just read.
FeasCell ==
    IF parse.ifeas >= 0 /\ parse.ifeas < Len(parse.cols)
    THEN Trim(parse.cols[parse.ifeas + 1])
    ELSE <<>>

StartsWithTrue(c) == Len(c) >= 4 /\ ToLower(SubSeq(c, 1, 4)) = S_true
EndsWithOne(c) == Len(c) >= 1 /\ c[Len(c)] = "1"

\* The loop has just pushed a row.
RowPushed == parse.pc \in {"loop", "done"} /\ parse.kept

\* C9: feasible is true exactly when the trimmed cell begins with "true",
\* letters compared without case, or is exactly "1".
C9_FeasibleTrueOrExactOne ==
    RowPushed =>
        (parse.rows[Len(parse.rows)].feasible
            <=> (StartsWithTrue(FeasCell) \/ FeasCell = <<"1">>))

\* C9, amended: feasible is true exactly when the trimmed cell begins with
\* "true", letters compared without case, or ends with "1".
C9_FeasibleTrueOrEndsWithOne ==
    RowPushed =>
        (parse.rows[Len(parse.rows)].feasible
            <=> (StartsWithTrue(FeasCell) \/ EndsWithOne(FeasCell)))

\* A row whose cell is longer than "1", ends with "1" and does not begin
\* with "true" was pushed as feasible.
C9_Witness ==
    /\ RowPushed
    /\ Len(FeasCell) > 1 /\ EndsWithOne(FeasCell) /\ ~StartsWithTrue(FeasCell)
    /\ parse.rows[Len(parse.rows)].feasible

IdsDistinct(rows) ==
    \A j, k \in 1..Len(rows) : j # k => rows[j].id # rows[k].id

\* C10: the ids of the records parseCSV returns are pairwise distinct.
C10_IdsDistinct == parse.pc = "done" => IdsDistinct(parse.rows)

\* C10, amended: the ids are pairwise distinct when the file has no id
\* column (they are the row indexes); with an id column each record's id
\* is what its row holds in that column.
C10_DefaultIdsDistinct ==
    /\ (parse.pc = "done" /\ parse.iid < 0) => IdsDistinct(parse.rows)
    /\ (RowPushed /\ parse.iid >= 0) =>
           parse.rows[Len(parse.rows)].id = At(parse.cols, parse.iid)

\* A file without id column gave two or more records.
C10_Witness ==
    /\ parse.pc = "done" /\ parse.pass = 1 /\ parse.iid < 0
    /\ Len(parse.rows) >= 2
    /\ IdsDistinct(parse.rows)

=============================================================================
